---- MODULE Spec2Model ----
(***************************************************************************)
(* Borrowing / inventory model of the library-management server.           *)
(*                                                                         *)
(* The state is the tables the handlers of server/routes.ts write through *)
(* server/storage.ts (books, borrowed_books, purchases) plus the requests  *)
(* in flight; the users table is only read, for the role.                  *)
(* Every `await` on a database statement is a                              *)
(* scheduling point of the Node event loop: a handler that issues several  *)
(* statements is one action per statement, and other handlers may run in   *)
(* between.  No handler opens a transaction, so each statement commits on  *)
(* its own.                                                                *)
(***************************************************************************)
EXTENDS Integers, Sequences, FiniteSets, TLC

VARIABLES
    books,   \* the books table: id -> row (the columns the handlers compute on)
    loans,   \* the borrowed_books table: row i has the serial id i
    req,     \* the handlers in flight: position and local variables of each
    res,     \* the response sent last: [op, id, status]
    now,     \* the server's clock
    served,  \* how many requests the server has accepted so far
    purchases,   \* the purchases table: row i has the serial id i
    lastBookId,  \* the last value drawn from the serial of books.id
    stats,   \* the body of the last answer of GET /api/admin/stats
    badge    \* the status label the dashboard rendered last: [id, text]

vars == <<books, loans, req, res, now, served,
          purchases, lastBookId, stats, badge>>

\* what the handlers of the lending and catalogue routes never write
shop == <<purchases, lastBookId, stats, badge>>

(***************************************************************************)
(* Bounds of the model.                                                    *)
(***************************************************************************)
MaxBooks  == 2   \* book ids 1..MaxBooks may be named by a request
MaxCopies == 2   \* copy counts an admin may write, and the initial stock
MaxLoans  == 2   \* rows of borrowed_books
MaxReqs   == 2   \* requests in flight at once
MaxTime   == 1   \* the clock runs 0..MaxTime
MaxServed == 4   \* requests the server receives in one run
MaxPrice  == 2   \* prices 1..MaxPrice (in units of the currency)
MaxPurchases == 2   \* rows of purchases
DayLen    == 2   \* clock ticks in a day
MaxDays   == 1   \* midnights the clock may pass
MaxClock  == 11  \* the instants 0..MaxClock a status label is derived for

(***************************************************************************)
(* Values.                                                                 *)
(***************************************************************************)
Users   == {"ann", "root"}
BookIds == 1..MaxBooks
LoanIds == 1..(MaxLoans + 1)          \* MaxLoans + 1 is never a row's id
Reqs    == 1..MaxReqs
Times   == 0..MaxTime
\* `new Date(x)` of a missing or malformed x is an Invalid Date
InvalidDate == -1
\* SQL NULL in a timestamp column
NullDate    == -2
\* what a request body may carry as dueDate / newDueDate
BodyDates == Times \cup {InvalidDate}
\* an optional field of a request body that is not given
Absent == -1

\* users.role, part_003:35 ('user' or 'admin'); the table is not written by
\* any handler of routes.ts other than the login plumbing
role(u) == IF u = "root" THEN "admin" ELSE "user"

\* the loan period in days: the client's `dueDate.getDate() + 14`
LoanDays == 14

\* decimal("price"): the prices a book may carry
Prices == 1..MaxPrice

\* a price below zero, as a request body may carry it ("-1.00")
NegPrice == 0 - MaxPrice - 1

\* no statistics were answered yet
NoStats == [totalBooks |-> 0, borrowedToday |-> 0, overdue |-> 0,
            revenueToday |-> 0]

\* no loan was rendered yet
NoBadge == [id |-> 0, text |-> "none"]

\* a slot that holds no request; user and date are the handler's arguments
\* where it has them (borrow) and these defaults where it has not
NoReq == [op |-> "none", pc |-> "idle", user |-> "ann", id |-> 0,
          date |-> NullDate, bookId |-> 0]

Init ==
    /\ \E t \in 1..MaxCopies :
          books = (1 :> [totalCopies |-> t, availableCopies |-> t, price |-> 1])
    /\ loans = << >>
    /\ req = [r \in Reqs |-> NoReq]
    /\ res = [op |-> "none", id |-> 0, status |-> 0]
    /\ now = 0
    /\ served = 0
    /\ purchases = << >>
    /\ lastBookId = 1
    /\ stats = NoStats
    /\ badge = NoBadge

(***************************************************************************)
(* Storage statements (server/storage.ts).  Each is one SQL statement.     *)
(***************************************************************************)
\* db.select().from(books).where(eq(books.id, id)): the rows found
getBookById(id) == {books[i] : i \in DOMAIN books \cap {id}}

\* db.select().from(borrowedBooks).where(eq(borrowedBooks.id, borrowId))
selectBorrowed(borrowId) == {loans[i] : i \in DOMAIN loans \cap {borrowId}}

\* borrowBook, first statement: "First, decrease available copies".  The
\* value written, `db.$count(books.availableCopies) - 1`, is read as its
\* comment says: the row's count less one,
\* UPDATE books SET available_copies = available_copies - 1 WHERE id = bookId
\* (no row matches an unknown id; the count is not compared with 0)
decreaseAvailable(bookId) ==
    [i \in DOMAIN books |->
        IF i = bookId
        THEN [books[i] EXCEPT !.availableCopies = @ - 1]
        ELSE books[i]]

\* returnBook, last statement: "Increase available copies", read likewise,
\* UPDATE books SET available_copies = available_copies + 1 WHERE id = bookId
\* (the count is not compared with totalCopies)
increaseAvailable(bookId) ==
    [i \in DOMAIN books |->
        IF i = bookId
        THEN [books[i] EXCEPT !.availableCopies = @ + 1]
        ELSE books[i]]

\* the row borrowBook inserts: borrowedAt, returnedAt and status take the
\* column defaults of the borrowed_books table
newBorrowed(userId, bookId, dueDate) ==
    [userId |-> userId, bookId |-> bookId, borrowedAt |-> now,
     dueDate |-> dueDate, returnedAt |-> NullDate, status |-> "borrowed"]

\* the INSERT of borrowBook is refused by the database when the due date is
\* an Invalid Date (due_date is NOT NULL and the value cannot be serialised)
\* or when book_id names no row of books (foreign key)
insertRefused(bookId, dueDate) ==
    dueDate = InvalidDate \/ bookId \notin DOMAIN books

\* the update of returnBook with the returnedAt column left out
markReturnedNoTimestamp(borrowId) ==
    [loans EXCEPT ![borrowId] = [@ EXCEPT !.status = "returned"]]

\* returnBook, second statement: status and returnedAt are overwritten
\* whatever the row's current status is
markReturned(borrowId) ==
    [loans EXCEPT ![borrowId] = [@ EXCEPT !.status = "returned",
                                          !.returnedAt = now]]

\* renewBook: UPDATE borrowed_books SET due_date = newDueDate WHERE id = ...
\* (no row matches an unknown id; neither the status nor the current due
\* date is looked at)
renewBook(borrowId, newDueDate) ==
    [i \in DOMAIN loans |->
        IF i = borrowId
        THEN [loans[i] EXCEPT !.dueDate = newDueDate]
        ELSE loans[i]]

\* updateBook: UPDATE books SET {...book} WHERE id = id; only the fields the
\* body gives are written, each as given
updateBook(id, tc, ac, p) ==
    [i \in DOMAIN books |->
        IF i = id
        THEN [totalCopies     |-> IF tc = Absent THEN books[i].totalCopies
                                                 ELSE tc,
              availableCopies |-> IF ac = Absent THEN books[i].availableCopies
                                                 ELSE ac,
              price           |-> IF p = Absent THEN books[i].price
                                                ELSE p]
        ELSE books[i]]

\* deleteBook: DELETE FROM books WHERE id = id
deleteBook(id) == [i \in DOMAIN books \ {id} |-> books[i]]

\* the books table with no foreign key pointing at it
deleteRefusedNoForeignKey(id) == FALSE

\* borrowed_books.book_id and purchases.book_id REFERENCES books(id), with no
\* ON DELETE rule: the database refuses to delete a book some loan row or
\* purchase row still names
deleteRefused(id) ==
    \/ \E i \in DOMAIN loans : loans[i].bookId = id
    \/ \E i \in DOMAIN purchases : purchases[i].bookId = id

\* createBook: INSERT INTO books VALUES (book); the id is the next value of
\* the serial, and a copy count the body does not give takes the column's
\* default, 1 (part_003:49-50)
createBook(tc, ac, p) ==
    (lastBookId + 1) :>
        [totalCopies     |-> IF tc = Absent THEN 1 ELSE tc,
         availableCopies |-> IF ac = Absent THEN 1 ELSE ac,
         price           |-> p]

\* insertBookSchema.parse(req.body): price is a column without a default and
\* must be given (title, author and category are taken as given), as a
\* string of any sign; the copy counts are optional integers with no lower
\* limit
invalidBook(tc, ac, p) == p = Absent

\* the row purchaseBook inserts: the price is the one handed in, purchasedAt
\* takes the column default
newPurchase(userId, bookId, price) ==
    [userId |-> userId, bookId |-> bookId, price |-> price,
     purchasedAt |-> now]

\* the INSERT of purchaseBook is refused by the database when the price is
\* missing (price is NOT NULL) or when book_id names no row of books
\* (foreign key)
purchaseRefused(bookId, price) ==
    price = Absent \/ bookId \notin DOMAIN books

\* getUserBorrowedBooks without the condition on the status
getUserBorrowedBooksAnyStatus(userId) ==
    {i \in DOMAIN loans :
        loans[i].userId = userId /\ loans[i].bookId \in DOMAIN books}

\* getUserBorrowedBooks: the rows of the user in status borrowed, joined
\* with their book (GET /api/borrowed answers them as they are)
getUserBorrowedBooks(userId) ==
    {i \in DOMAIN loans :
        /\ loans[i].userId = userId
        /\ loans[i].status = "borrowed"
        /\ loans[i].bookId \in DOMAIN books}

\* the calendar day an instant lies in (today.setHours(0, 0, 0, 0))
day(t) == t \div DayLen

\* getOverdueBooks: the rows in status borrowed, joined with their book; the
\* comparison of dueDate with now is a comment in the where clause
getOverdueBooks ==
    {i \in DOMAIN loans :
        loans[i].status = "borrowed" /\ loans[i].bookId \in DOMAIN books}

\* getTotalBooks: db.$count(books).  The statistics read `result.count` of
\* `const [result] = await db.$count(...)`; they are taken as the number of
\* rows the count is asked for.
getTotalBooks == Cardinality(DOMAIN books)

\* getTotalBorrowedToday: db.$count(borrowedBooks) with no filter; the
\* comparison of borrowedAt with today is a comment
getTotalBorrowedToday == Len(loans)

\* getTotalOverdue: db.$count(borrowedBooks, status = 'borrowed'); the
\* comparison of dueDate with now is a comment
getTotalOverdue ==
    Cardinality({i \in DOMAIN loans : loans[i].status = "borrowed"})

\* getTotalRevenueToday: "Placeholder for now"
getTotalRevenueToday == 1847

\* Math.ceil(a / b) for b > 0
ceilDiv(a, b) == -((-a) \div b)

\* getStatus with the days rounded down instead of up
getStatusFloor(dueDate, t) ==
    LET diffDays == (dueDate - t) \div DayLen
    IN  IF diffDays < 0 THEN "Overdue"
        ELSE IF diffDays <= 3 THEN "Due Soon"
        ELSE "On Time"

\* UserDashboard.getStatus: the label of a loan due at dueDate, seen at t
getStatus(dueDate, t) ==
    LET diffDays == ceilDiv(dueDate - t, DayLen)
    IN  IF diffDays < 0 THEN "Overdue"
        ELSE IF diffDays <= 3 THEN "Due Soon"
        ELSE "On Time"

(***************************************************************************)
(* Route handlers (server/routes.ts).                                      *)
(***************************************************************************)
Free(r) == req[r].pc = "idle"

\* res.json(...) / res.status(...).json(...): the handler ends
Respond(r, o, i, status) ==
    /\ req' = [req EXCEPT ![r] = NoReq]
    /\ res' = [op |-> o, id |-> i, status |-> status]

\* a request arrives
Accept ==
    /\ served < MaxServed
    /\ served' = served + 1

\* a handler that answers without awaiting a second statement
Answer(o, i, status) ==
    /\ res' = [op |-> o, id |-> i, status |-> status]
    /\ req' = req

\* the handler goes on to its next statement, holding its arguments and
\* (returnBook) the book id of the row it selected
Goto(r, o, p, u, i, d, b) ==
    /\ req' = [req EXCEPT ![r] = [op |-> o, pc |-> p, user |-> u, id |-> i,
                                  date |-> d, bookId |-> b]]
    /\ res' = res

\* the availability check with the count comparison left out
notAvailableNoCount(bookId) == getBookById(bookId) = {}

\* routes.ts:128, `!book || book.availableCopies === 0`
notAvailable(bookId) ==
    \/ getBookById(bookId) = {}
    \/ \E book \in getBookById(bookId) : book.availableCopies = 0

InFlightBorrows ==
    Cardinality({q \in Reqs : req[q].op = "borrow"})

\* POST /api/borrow up to its first write: read the book, refuse with 400
\* when there is none or its count is 0, else go on to borrowBook
BorrowRoute(r, u, b, d) ==
    /\ Free(r)
    /\ Accept
    /\ Len(loans) + InFlightBorrows < MaxLoans
    /\ IF notAvailable(b)
       THEN Answer("borrow", b, 400)
       ELSE Goto(r, "borrow", "decrement", u, b, d, b)
    /\ UNCHANGED <<books, loans, now, shop>>

\* borrowBook, first statement
BorrowBookDecrement(r) ==
    /\ req[r].op = "borrow" /\ req[r].pc = "decrement"
    /\ books' = decreaseAvailable(req[r].id)
    /\ req' = [req EXCEPT ![r].pc = "insert"]
    /\ UNCHANGED <<loans, res, now, served, shop>>

\* borrowBook, second statement, and the handler's answer: the new row as
\* JSON, or 500 from the catch block when the insert throws
BorrowBookInsert(r) ==
    /\ req[r].op = "borrow" /\ req[r].pc = "insert"
    /\ IF insertRefused(req[r].id, req[r].date)
       THEN /\ loans' = loans
            /\ Respond(r, "borrow", req[r].id, 500)
       ELSE /\ loans' = Append(loans,
                          newBorrowed(req[r].user, req[r].id, req[r].date))
            /\ Respond(r, "borrow", req[r].id, 200)
    /\ UNCHANGED <<books, now, served, shop>>

\* POST /api/return/:id up to its first write: returnBook selects the row;
\* when there is none it does nothing and the handler still answers 200.
\* The handler never reads who is asking.
ReturnRoute(r, id) ==
    /\ Free(r)
    /\ Accept
    /\ IF selectBorrowed(id) = {}
       THEN Answer("return", id, 200)
       ELSE Goto(r, "return", "mark", NoReq.user, id, NullDate,
                 loans[id].bookId)
    /\ UNCHANGED <<books, loans, now, shop>>

\* returnBook, second statement
ReturnBookUpdate(r) ==
    /\ req[r].op = "return" /\ req[r].pc = "mark"
    /\ loans' = markReturned(req[r].id)
    /\ req' = [req EXCEPT ![r].pc = "increment"]
    /\ UNCHANGED <<books, res, now, served, shop>>

\* returnBook, third statement, and the handler's answer
ReturnBookIncrement(r) ==
    /\ req[r].op = "return" /\ req[r].pc = "increment"
    /\ books' = increaseAvailable(req[r].bookId)
    /\ Respond(r, "return", req[r].id, 200)
    /\ UNCHANGED <<loans, now, served, shop>>

\* POST /api/renew/:id: one statement; an Invalid Date cannot be serialised
\* and the catch block answers 500.  The handler never reads who is asking.
RenewRoute(id, d) ==
    /\ Accept
    /\ IF d = InvalidDate
       THEN /\ loans' = loans
            /\ Answer("renew", id, 500)
       ELSE /\ loans' = renewBook(id, d)
            /\ Answer("renew", id, 200)
    /\ UNCHANGED <<books, now, shop>>

\* PUT /api/books/:id: the role check, then one statement; the handler
\* answers 200 with the updated row, or with nothing when no row matched
UpdateBookRoute(u, id, tc, ac, p) ==
    /\ Accept
    /\ IF role(u) # "admin"
       THEN /\ books' = books
            /\ Answer("update", id, 403)
       ELSE /\ books' = updateBook(id, tc, ac, p)
            /\ Answer("update", id, 200)
    /\ UNCHANGED <<loans, now, shop>>

\* the delete handler with the role check left out
DeleteBookRouteNoRoleCheck(u, id) ==
    /\ Accept
    /\ IF deleteRefused(id)
       THEN /\ books' = books
            /\ Answer("delete", id, 500)
       ELSE /\ books' = deleteBook(id)
            /\ Answer("delete", id, 200)
    /\ UNCHANGED <<loans, now, shop>>

\* DELETE /api/books/:id: the role check, then one statement
DeleteBookRoute(u, id) ==
    /\ Accept
    /\ IF role(u) # "admin"
       THEN /\ books' = books
            /\ Answer("delete", id, 403)
       ELSE IF deleteRefused(id)
       THEN /\ books' = books
            /\ Answer("delete", id, 500)
       ELSE /\ books' = deleteBook(id)
            /\ Answer("delete", id, 200)
    /\ UNCHANGED <<loans, now, shop>>

\* POST /api/books: the role check, then the validation of the body, then
\* one statement; the handler answers 200 with the new row
CreateBookRoute(u, tc, ac, p) ==
    /\ Accept
    /\ IF role(u) # "admin"
       THEN /\ UNCHANGED <<books, lastBookId>>
            /\ Answer("create", 0, 403)
       ELSE IF invalidBook(tc, ac, p)
       THEN /\ UNCHANGED <<books, lastBookId>>
            /\ Answer("create", 0, 400)
       ELSE /\ lastBookId < MaxBooks
            /\ books' = books @@ createBook(tc, ac, p)
            /\ lastBookId' = lastBookId + 1
            /\ Answer("create", lastBookId + 1, 200)
    /\ UNCHANGED <<loans, now, purchases, stats, badge>>

\* the purchase handler taking a copy off the shelf as a borrow does
PurchaseRouteTakesCopy(u, b, p) ==
    /\ Accept
    /\ Len(purchases) < MaxPurchases
    /\ IF purchaseRefused(b, p)
       THEN /\ purchases' = purchases
            /\ books' = books
            /\ Answer("purchase", b, 500)
       ELSE /\ purchases' = Append(purchases, newPurchase(u, b, p))
            /\ books' = decreaseAvailable(b)
            /\ Answer("purchase", b, 200)
    /\ UNCHANGED <<loans, now, lastBookId, stats, badge>>

\* POST /api/purchase: one statement, with the price of the request body;
\* the catch block answers 500 when the insert throws
PurchaseRoute(u, b, p) ==
    /\ Accept
    /\ Len(purchases) < MaxPurchases
    /\ IF purchaseRefused(b, p)
       THEN /\ purchases' = purchases
            /\ Answer("purchase", b, 500)
       ELSE /\ purchases' = Append(purchases, newPurchase(u, b, p))
            /\ Answer("purchase", b, 200)
    /\ UNCHANGED <<books, loans, now, lastBookId, stats, badge>>

\* GET /api/admin/stats: the role check, then the counts (read here in one
\* step) and the answer
AdminStatsRoute(u) ==
    /\ Accept
    /\ IF role(u) # "admin"
       THEN /\ stats' = stats
            /\ Answer("stats", 0, 403)
       ELSE /\ stats' = [totalBooks    |-> getTotalBooks,
                         borrowedToday |-> getTotalBorrowedToday,
                         overdue       |-> getTotalOverdue,
                         revenueToday  |-> getTotalRevenueToday]
            /\ Answer("stats", 0, 200)
    /\ UNCHANGED <<books, loans, now, purchases, lastBookId, badge>>

\* the dashboard renders the row of a loan it was given by GET /api/borrowed
RenderLoan(id) ==
    /\ id \in DOMAIN loans
    /\ loans[id].status = "borrowed"
    /\ badge' = [id |-> id, text |-> getStatus(loans[id].dueDate, now)]
    /\ UNCHANGED <<books, loans, req, res, now, served,
                   purchases, lastBookId, stats>>

\* the clock passes local midnight
Midnight ==
    /\ day(now) < MaxDays
    /\ now' = (day(now) + 1) * DayLen
    /\ UNCHANGED <<books, loans, req, res, served, shop>>

\* the server's clock (new Date(), defaultNow())
Tick ==
    /\ now < MaxTime
    /\ now' = now + 1
    /\ UNCHANGED <<books, loans, req, res, served, shop>>

(***************************************************************************)
(* Specifications.                                                         *)
(***************************************************************************)
Borrow  == \E r \in Reqs, u \in Users, b \in BookIds, d \in BodyDates :
              BorrowRoute(r, u, b, d)
BorrowDecrement == \E r \in Reqs : BorrowBookDecrement(r)
BorrowInsert    == \E r \in Reqs : BorrowBookInsert(r)
Return  == \E r \in Reqs, id \in LoanIds : ReturnRoute(r, id)
ReturnUpdate    == \E r \in Reqs : ReturnBookUpdate(r)
ReturnIncrement == \E r \in Reqs : ReturnBookIncrement(r)
Renew   == \E id \in LoanIds, d \in BodyDates : RenewRoute(id, d)
UpdateBook == \E u \in Users, id \in BookIds,
                 tc \in (0..MaxCopies) \cup {Absent},
                 ac \in (0..MaxCopies) \cup {Absent} :
                 UpdateBookRoute(u, id, tc, ac, Absent)
DeleteBook == \E u \in Users, id \in BookIds :
                 DeleteBookRoute(u, id)

CreateBook == \E u \in Users,
                 tc \in (0..MaxCopies) \cup {Absent},
                 ac \in (0..MaxCopies) \cup {Absent},
                 p \in Prices \cup {Absent} :
                 CreateBookRoute(u, tc, ac, p)
\* a create request whose price may be negative
CreateAnyBook == \E u \in Users,
                 tc \in (0..MaxCopies) \cup {Absent},
                 ac \in (0..MaxCopies) \cup {Absent},
                 p \in Prices \cup {NegPrice, Absent} :
                 CreateBookRoute(u, tc, ac, p)
UpdatePrice == \E u \in Users, id \in BookIds, p \in Prices :
                 UpdateBookRoute(u, id, Absent, Absent, p)
Purchase == \E u \in Users, b \in BookIds, p \in Prices \cup {Absent} :
                 PurchaseRoute(u, b, p)
AdminStats == \E u \in Users : AdminStatsRoute(u)
Render == \E id \in LoanIds : RenderLoan(id)

NoneInFlight == \A r \in Reqs : Free(r)

\* borrowing, returning and renewing only, one request at a time: the next
\* request arrives after the previous one was answered
NextSeq ==
    \/ NoneInFlight /\ Borrow
    \/ NoneInFlight /\ Return
    \/ NoneInFlight /\ Renew
    \/ BorrowDecrement \/ BorrowInsert
    \/ ReturnUpdate \/ ReturnIncrement
    \/ Tick

\* borrowing, returning and renewing only: no admin edits the catalogue
NextLoans ==
    \/ Borrow \/ BorrowDecrement \/ BorrowInsert
    \/ Return \/ ReturnUpdate \/ ReturnIncrement
    \/ Renew
    \/ Tick

Next ==
    \/ NextLoans
    \/ UpdateBook
    \/ DeleteBook

\* lending, purchases, price edits and the statistics, one request at a
\* time, over two calendar days
NextShop ==
    \/ NextSeq
    \/ NoneInFlight /\ Purchase
    \/ NoneInFlight /\ UpdatePrice
    \/ NoneInFlight /\ AdminStats
    \/ Midnight

\* the admin commands and purchases; each of these handlers writes in one
\* statement
NextAdmin ==
    \/ CreateBook
    \/ UpdateBook
    \/ UpdatePrice
    \/ DeleteBook
    \/ AdminStats
    \/ Purchase

\* the admin's catalogue commands alone, with create bodies of any price
NextCatalogue ==
    \/ CreateAnyBook
    \/ UpdateBook
    \/ UpdatePrice
    \/ DeleteBook

\* the dashboard of a user who holds the one copy of book 1, opened at any
\* instant for any due date
InitDashboard ==
    /\ books = (1 :> [totalCopies |-> 1, availableCopies |-> 0, price |-> 1])
    /\ \E d \in 0..MaxClock :
          loans = << [userId |-> "ann", bookId |-> 1, borrowedAt |-> 0,
                      dueDate |-> d, returnedAt |-> NullDate,
                      status |-> "borrowed"] >>
    /\ req = [r \in Reqs |-> NoReq]
    /\ res = [op |-> "borrow", id |-> 1, status |-> 200]
    /\ now \in 0..MaxClock
    /\ served = 1
    /\ purchases = << >>
    /\ lastBookId = 1
    /\ stats = NoStats
    /\ badge = NoBadge

NextDashboard ==
    \/ Render
    \/ Renew
    \/ Midnight

SpecShop == Init /\ [][NextShop]_vars

SpecAdmin == Init /\ [][NextAdmin]_vars

SpecCatalogue == Init /\ [][NextCatalogue]_vars

SpecDashboard == InitDashboard /\ [][NextDashboard]_vars

SpecSeq == Init /\ [][NextSeq]_vars

SpecLoans == Init /\ [][NextLoans]_vars

Spec == Init /\ [][Next]_vars

\* the rows of borrowed_books of one book still in status borrowed
ActiveLoans(b) ==
    {i \in DOMAIN loans : loans[i].bookId = b /\ loans[i].status = "borrowed"}

TypeOK ==
    /\ DOMAIN books \subseteq BookIds
    /\ \A i \in DOMAIN books : books[i].totalCopies \in 0..MaxCopies
    /\ Len(loans) <= MaxLoans
    /\ now \in Times \cup {MaxDays * DayLen} \cup 0..MaxClock
    /\ served \in 0..MaxServed
    /\ \A i \in DOMAIN books : books[i].price \in Prices \cup {NegPrice}
    /\ Len(purchases) <= MaxPurchases
    /\ \A i \in DOMAIN purchases : purchases[i].price \in Prices
    /\ lastBookId \in BookIds
    /\ DOMAIN books \subseteq 1..lastBookId
    /\ badge.text \in {"none", "Overdue", "Due Soon", "On Time"}

(***************************************************************************)
(* Claims.                                                                 *)
(***************************************************************************)

\* C1: for every book, in every state reached by borrow and return
\* operations alone, 0 <= availableCopies <= totalCopies.
C1_CopiesInRange ==
    \A b \in DOMAIN books :
        /\ 0 <= books[b].availableCopies
        /\ books[b].availableCopies <= books[b].totalCopies

\* C2: two borrow requests racing for the last copy of a book: one is
\* refused, one Loan is created and the count ends at 0.  Stated on the
\* outcome: a book stocked with a single copy, of which the server has been
\* asked only two things, both answered, does not have two loan rows.
C2_OneBorrowWins ==
    \A b \in DOMAIN books :
        (/\ books[b].totalCopies = 1
         /\ served = 2
         /\ NoneInFlight)
        => Cardinality({i \in DOMAIN loans : loans[i].bookId = b}) <= 1

\* C3: a borrow request that finds the book with availableCopies = 0 is
\* answered 400 "not available" at once: no row is inserted, the count stays
\* 0 and the handler does not go on to borrowBook.
C3_NoCopiesRefused ==
    [][\A r \in Reqs, u \in Users, b \in DOMAIN books, d \in BodyDates :
          (books[b].availableCopies = 0 /\ BorrowRoute(r, u, b, d))
          => /\ res' = [op |-> "borrow", id |-> b, status |-> 400]
             /\ loans' = loans
             /\ books' = books
             /\ req' = req]_vars

\* a borrow of a book whose last copy is out on loan was refused
C3_Witness ==
    /\ res.op = "borrow" /\ res.status = 400
    /\ res.id \in DOMAIN books
    /\ books[res.id].availableCopies = 0
    /\ books[res.id].totalCopies = Cardinality(ActiveLoans(res.id))
    /\ ActiveLoans(res.id) # {}

\* C4: a borrow of an existing book that had a copy available, by a user
\* holding no unreturned loan of it, succeeds: the decrement takes exactly
\* one copy, and the request ends answered 200 with exactly one new row for
\* that user and book, in status borrowed.
C4_BorrowSucceeds ==
    [][\A r \in Reqs :
          /\ (BorrowBookDecrement(r) /\ req[r].id \in DOMAIN books)
             => books'[req[r].id].availableCopies
                   = books[req[r].id].availableCopies - 1
          /\ (/\ BorrowBookInsert(r)
              /\ req[r].id \in DOMAIN books
              /\ books[req[r].id].availableCopies >= 0
              /\ ~ \E i \in ActiveLoans(req[r].id) :
                       loans[i].userId = req[r].user)
             => /\ res'.status = 200
                /\ Len(loans') = Len(loans) + 1
                /\ loans'[Len(loans')].userId = req[r].user
                /\ loans'[Len(loans')].bookId = req[r].id
                /\ loans'[Len(loans')].status = "borrowed"]_vars

\* C5: borrow is all-or-nothing.  While only borrows have had any effect
\* (no row was ever marked returned, no admin edit) and no handler is in
\* flight, the copies missing from a book are exactly its loan rows.
C5_AllOrNothing ==
    (/\ NoneInFlight
     /\ \A i \in DOMAIN loans : loans[i].status = "borrowed")
    => \A b \in DOMAIN books :
          books[b].totalCopies - books[b].availableCopies
             = Cardinality(ActiveLoans(b))

\* C6: returning a borrowed loan adds exactly one copy and marks the row
\* returned; a return of a row already returned is refused (not answered
\* 200) and touches nothing.
C6_ReturnOnce ==
    [][/\ \A r \in Reqs :
            (ReturnBookIncrement(r) /\ req[r].bookId \in DOMAIN books)
            => books'[req[r].bookId].availableCopies
                  = books[req[r].bookId].availableCopies + 1
       /\ \A r \in Reqs :
            ReturnBookUpdate(r) => loans'[req[r].id].status = "returned"
       /\ \A r \in Reqs, id \in DOMAIN loans :
            (loans[id].status = "returned" /\ ReturnRoute(r, id))
            => /\ res'.op = "return" /\ res'.id = id /\ res'.status # 200
               /\ req' = req
               /\ books' = books /\ loans' = loans]_vars

\* C7: at most one row in status borrowed for any (user, book) pair.
C7_OneActiveLoanPerUserBook ==
    \A i, j \in DOMAIN loans :
        (/\ i # j
         /\ loans[i].status = "borrowed" /\ loans[j].status = "borrowed"
         /\ loans[i].bookId = loans[j].bookId)
        => loans[i].userId # loans[j].userId

\* C8: renewing a borrowed loan to a date not later than its due date is
\* refused and changes nothing; renewing to a later date sets the due date
\* and leaves the status borrowed.
C8_RenewStrictlyLater ==
    [][\A id \in DOMAIN loans, d \in Times :
          (loans[id].status = "borrowed" /\ RenewRoute(id, d))
          => IF d <= loans[id].dueDate
             THEN res'.status # 200 /\ loans' = loans
             ELSE /\ loans'[id].dueDate = d
                  /\ loans'[id].status = "borrowed"]_vars

\* C9: once a row is returned its status, dueDate and returnedAt never
\* change, and every return or renew naming it is refused.
C9_ReturnedIsFinal ==
    [][\A id \in DOMAIN loans :
          loans[id].status = "returned"
          => /\ loans'[id] = loans[id]
             /\ \A d \in Times : RenewRoute(id, d) => res'.status # 200
             /\ \A r \in Reqs : ReturnRoute(r, id) => res'.status # 200]_vars

\* C10: a return or renew naming no loan row, and an admin's update or
\* delete naming no book row, is answered 404 and changes no table.
C10_UnknownIdNotFound ==
    [][/\ \A r \in Reqs, id \in LoanIds \ DOMAIN loans :
            ReturnRoute(r, id)
            => res'.status = 404 /\ books' = books /\ loans' = loans
       /\ \A id \in LoanIds \ DOMAIN loans, d \in Times :
            RenewRoute(id, d)
            => res'.status = 404 /\ books' = books /\ loans' = loans
       /\ \A u \in Users, id \in BookIds \ DOMAIN books,
             tc \in (0..MaxCopies) \cup {Absent},
             ac \in (0..MaxCopies) \cup {Absent} :
            (role(u) = "admin" /\ UpdateBookRoute(u, id, tc, ac, Absent))
            => res'.status = 404 /\ books' = books /\ loans' = loans
       /\ \A u \in Users, id \in BookIds \ DOMAIN books :
            (role(u) = "admin" /\ DeleteBookRoute(u, id))
            => res'.status = 404 /\ books' = books /\ loans' = loans]_vars

\* C11: every row borrow creates has its due date 14 days after its creation
\* time, whatever the request carries.
C11_DueInFourteenDays ==
    \A i \in DOMAIN loans :
        loans[i].dueDate = loans[i].borrowedAt + LoanDays * DayLen

\* C12: a create, update, delete or statistics request of an actor who is
\* not an admin is answered 403 whatever its input is, valid or not, and
\* leaves the books, the loans and the purchases as they were.  Stated for
\* every step: it either is answered 403 with the tables unchanged, or is not
\* such a request.
C12_NonAdminForbidden ==
    [][\A u \in Users :
          role(u) # "admin"
          => \/ /\ res'.status = 403
                /\ books' = books /\ loans' = loans /\ purchases' = purchases
                /\ lastBookId' = lastBookId
             \/ ~ \/ \E tc \in (0..MaxCopies) \cup {Absent},
                        ac \in (0..MaxCopies) \cup {Absent},
                        p \in Prices \cup {Absent} :
                        CreateBookRoute(u, tc, ac, p)
                  \/ \E id \in BookIds,
                        tc \in (0..MaxCopies) \cup {Absent},
                        ac \in (0..MaxCopies) \cup {Absent} :
                        UpdateBookRoute(u, id, tc, ac, Absent)
                  \/ \E id \in BookIds, p \in Prices :
                        UpdateBookRoute(u, id, Absent, Absent, p)
                  \/ \E id \in BookIds : DeleteBookRoute(u, id)
                  \/ AdminStatsRoute(u)]_vars

\* a create request was refused with 403 while the tables held a purchase
\* and a book stocked with MaxCopies copies
C12_Witness ==
    /\ res.op = "create" /\ res.status = 403
    /\ Len(purchases) > 0
    /\ \E b \in DOMAIN books : books[b].totalCopies = MaxCopies

\* C13: the price of a purchase row is the price its book had when the
\* purchase was made, not one the caller supplies, and a row once written
\* keeps its price whatever becomes of the book's price.
C13_PriceCaptured ==
    [][/\ \A u \in Users, b \in DOMAIN books, p \in Prices \cup {Absent} :
            (PurchaseRoute(u, b, p) /\ Len(purchases') > Len(purchases))
            => purchases'[Len(purchases')].price = books[b].price
       /\ \A i \in DOMAIN purchases :
            /\ i \in DOMAIN purchases'
            /\ purchases'[i].price = purchases[i].price]_vars

\* C14: a purchase naming no row of books is answered 404 and inserts no
\* purchase row.
C14_PurchaseUnknownBook ==
    [][\A u \in Users, b \in BookIds \ DOMAIN books,
          p \in Prices \cup {Absent} :
          PurchaseRoute(u, b, p)
          => res'.status = 404 /\ purchases' = purchases]_vars

\* the books whose availableCopies a step changes (a book that appears or
\* disappears counts as changed)
CopiesChanged ==
    {b \in DOMAIN books \cup DOMAIN books' :
        \/ b \notin DOMAIN books
        \/ b \notin DOMAIN books'
        \/ books'[b].availableCopies # books[b].availableCopies}

\* C15: availableCopies changes only in steps of borrow, of return and of
\* the admin's book commands; a renew, a purchase and the statistics query
\* leave the availableCopies of every book as it was.
C15_CopiesFrame ==
    [][/\ CopiesChanged # {}
          => \/ BorrowDecrement \/ ReturnIncrement
             \/ CreateBook \/ UpdateBook \/ UpdatePrice \/ DeleteBook
       /\ (\/ \E id \in LoanIds, d \in BodyDates : RenewRoute(id, d)
           \/ \E u \in Users, b \in BookIds, p \in Prices \cup {Absent} :
                 PurchaseRoute(u, b, p)
           \/ \E u \in Users : AdminStatsRoute(u))
          => CopiesChanged = {}]_vars

\* a loan was renewed after a purchase was made, and the book of the loan
\* still misses exactly the copies that are out on loan
C15_Witness ==
    /\ Len(purchases) > 0
    /\ res.op = "renew" /\ res.status = 200
    /\ res.id \in DOMAIN loans
    /\ loans[res.id].status = "borrowed"
    /\ loans[res.id].dueDate > loans[res.id].borrowedAt
    /\ LET b == loans[res.id].bookId
       IN  /\ b \in DOMAIN books
           /\ books[b].availableCopies
                 = books[b].totalCopies - Cardinality(ActiveLoans(b))

\* daysRemaining = ceil((dueDate - now) / 1 day): the one n with
\* (n - 1) days < dueDate - now <= n days
daysRemaining(dueDate, t) ==
    CHOOSE n \in (0 - MaxClock - 1)..(MaxClock + 1) :
        /\ (n - 1) * DayLen < dueDate - t
        /\ dueDate - t <= n * DayLen

\* C16: the label rendered for a loan is Overdue when daysRemaining < 0, Due
\* Soon when 0 <= daysRemaining <= 3 and On Time otherwise, and depends on
\* nothing but the due date and the instant of rendering.
C16_DerivedStatus ==
    [][\A id \in DOMAIN loans :
          RenderLoan(id)
          => LET n == daysRemaining(loans[id].dueDate, now)
             IN  /\ n < 0 => badge'.text = "Overdue"
                 /\ (0 <= n /\ n <= 3) => badge'.text = "Due Soon"
                 /\ n > 3 => badge'.text = "On Time"]_vars

\* a loan due in three days and a half was rendered On Time
C16_Witness ==
    /\ badge.id \in DOMAIN loans
    /\ loans[badge.id].dueDate - now = 3 * DayLen + 1
    /\ badge.text = "On Time"

\* the loans in status borrowed whose due date is earlier than now
OverdueLoans ==
    {i \in DOMAIN loans :
        loans[i].status = "borrowed" /\ loans[i].dueDate < now}

\* C17: listOverdue is exactly the loans in status borrowed with a due date
\* earlier than now, and the overdue figure of the statistics is their number.
C17_OverdueExact ==
    [][/\ getOverdueBooks = OverdueLoans
       /\ \A u \in Users :
            (role(u) = "admin" /\ AdminStatsRoute(u))
            => stats'.overdue = Cardinality(OverdueLoans)]_vars

\* C18: the borrowedToday figure of the statistics is the number of loans
\* whose borrowedAt lies in the current calendar day.
C18_BorrowedToday ==
    [][\A u \in Users :
          (role(u) = "admin" /\ AdminStatsRoute(u))
          => stats'.borrowedToday =
                Cardinality({i \in DOMAIN loans :
                                day(loans[i].borrowedAt) = day(now)})]_vars

RECURSIVE SumPrices(_)
\* the sum of the prices of the purchases made today, among the first n rows
SumPrices(n) ==
    IF n = 0 THEN 0
    ELSE SumPrices(n - 1)
            + (IF day(purchases[n].purchasedAt) = day(now)
               THEN purchases[n].price ELSE 0)

\* C19: the revenueToday figure of the statistics is the sum of the prices of
\* the purchases made in the current calendar day, 0 when there are none.
C19_RevenueToday ==
    [][\A u \in Users :
          (role(u) = "admin" /\ AdminStatsRoute(u))
          => stats'.revenueToday = SumPrices(Len(purchases))]_vars

\* C20: a book created with totalCopies = n and no availableCopies has
\* availableCopies = n.
C20_CreateDefaultsToTotal ==
    [][\A u \in Users, n \in 1..MaxCopies, p \in Prices :
          (role(u) = "admin" /\ CreateBookRoute(u, n, Absent, p))
          => /\ lastBookId' \in DOMAIN books'
             /\ books'[lastBookId'].totalCopies = n
             /\ books'[lastBookId'].availableCopies = n]_vars

\* C21: an admin's create request with totalCopies < 1 or with a price
\* below 0 is answered with a validation error (400) and creates no book.
\* (The ISBN column is not part of the model.)
C21_CreateValidates ==
    [][\A u \in Users,
          tc \in (0..MaxCopies) \cup {Absent},
          ac \in (0..MaxCopies) \cup {Absent},
          p \in Prices \cup {NegPrice} :
          (/\ role(u) = "admin"
           /\ tc = 0 \/ p = NegPrice
           /\ CreateBookRoute(u, tc, ac, p))
          => /\ res'.status = 400
             /\ books' = books
             /\ lastBookId' = lastBookId]_vars

\* C22: after an admin's create or update the book has
\* 0 <= availableCopies <= totalCopies, and an update that only lowers
\* totalCopies below the current availableCopies leaves availableCopies equal
\* to the new totalCopies.
C22_AdminKeepsRange ==
    [][/\ \A u \in Users,
             tc \in (0..MaxCopies) \cup {Absent},
             ac \in (0..MaxCopies) \cup {Absent},
             p \in Prices \cup {NegPrice} :
            (/\ role(u) = "admin"
             /\ CreateBookRoute(u, tc, ac, p)
             /\ res'.status = 200)
            => /\ 0 <= books'[lastBookId'].availableCopies
               /\ books'[lastBookId'].availableCopies
                     <= books'[lastBookId'].totalCopies
       /\ \A u \in Users, id \in DOMAIN books,
             tc \in (0..MaxCopies) \cup {Absent},
             ac \in (0..MaxCopies) \cup {Absent} :
            (role(u) = "admin" /\ UpdateBookRoute(u, id, tc, ac, Absent))
            => /\ 0 <= books'[id].availableCopies
               /\ books'[id].availableCopies <= books'[id].totalCopies
               /\ (/\ ac = Absent /\ tc # Absent
                   /\ tc < books[id].availableCopies)
                  => books'[id].availableCopies = tc]_vars

C24_ListForUserExact ==
    \A u \in Users :
        getUserBorrowedBooks(u)
           = {i \in DOMAIN loans :
                 loans[i].userId = u /\ loans[i].status = "borrowed"}

\* ann has returned her loan and root holds one: ann's list is empty and
\* root's is not
C24_Witness ==
    /\ \E i \in DOMAIN loans :
          loans[i].userId = "ann" /\ loans[i].status = "returned"
    /\ getUserBorrowedBooks("ann") = {}
    /\ \E i \in getUserBorrowedBooks("root") : loans[i].userId = "root"

\* C25: a return commits its two effects together: the step that turns a
\* row from borrowed to returned is the step that adds one copy to the
\* row's book, and a copy is added only by such a step.
C25_ReturnAtomic ==
    [][/\ \A i \in DOMAIN loans :
            (loans[i].status = "borrowed" /\ loans'[i].status = "returned")
            => /\ loans[i].bookId \in DOMAIN books'
               /\ books'[loans[i].bookId].availableCopies
                     = books[loans[i].bookId].availableCopies + 1
       /\ \A b \in DOMAIN books :
            (/\ b \in DOMAIN books'
             /\ books'[b].availableCopies > books[b].availableCopies)
            => \E i \in DOMAIN loans :
                  /\ loans[i].bookId = b
                  /\ loans[i].status = "borrowed"
                  /\ loans'[i].status = "returned"]_vars

\* C26: of two return requests in flight for the same loan at most one
\* gets as far as adding a copy and answering 200.  A handler that stands
\* before the increment has only that continuation, so the claim is that no
\* two handlers of the same loan stand there together.
C26_ConcurrentReturnOnce ==
    \A r1, r2 \in Reqs :
        (/\ r1 # r2
         /\ req[r1].op = "return" /\ req[r2].op = "return"
         /\ req[r1].id = req[r2].id)
        => ~(req[r1].pc = "increment" /\ req[r2].pc = "increment")

\* C27: the label the dashboard renders for a borrowed loan is Overdue
\* exactly when the loan's due date is earlier than now, the predicate of
\* the admin's overdue view.
C27_OverdueConsistent ==
    [][\A id \in DOMAIN loans :
          RenderLoan(id)
          => (badge'.text = "Overdue" <=> id \in OverdueLoans)]_vars

\* C28: copy conservation.  With no admin edit and every borrow and return
\* command completed, each book's availableCopies plus the number of its
\* rows in status borrowed is its totalCopies.
C28_CopyConservation ==
    NoneInFlight
    => \A b \in DOMAIN books :
          books[b].availableCopies + Cardinality(ActiveLoans(b))
             = books[b].totalCopies

\* C29: a return or renew request changes a loan only when the requester
\* owns it (or, for return, is an admin).  The handlers take no requester,
\* so a step of theirs is the step of a request by any user: whenever some
\* user is neither the owner of the row nor (for return) an admin, a return
\* or renew naming the row leaves the row and the book's count unchanged,
\* and the request is not taken further.
C29_OwnerOnly ==
    [][\A id \in DOMAIN loans :
          /\ (\E u \in Users : u # loans[id].userId)
             => \A d \in Times :
                   RenewRoute(id, d) => loans' = loans /\ books' = books
          /\ (\E u \in Users : u # loans[id].userId /\ role(u) # "admin")
             => \A r \in Reqs :
                   ReturnRoute(r, id)
                   => loans' = loans /\ books' = books /\ req' = req]_vars

====
